---- MODULE Spec2Model ----
(***************************************************************************)
(* Model of src/server.js: the Express handlers /create_order,             *)
(* /verify_payment, /payment_callback and /verify_phone, the audit files   *)
(* written by logToFile, and the payment gateway as the environment.       *)
(*                                                                         *)
(* Node runs one handler turn at a time: a handler keeps the event loop    *)
(* (variable running) from its first statement to its next await or to its *)
(* end.  Other requests and gateway replies are taken only when the event  *)
(* loop is free.  Every statement group of a handler is one step, so the   *)
(* order of appends, outbound calls and responses is visible.              *)
(***************************************************************************)
EXTENDS Integers, Sequences, FiniteSets, TLC

\* ---------------------------------------------------------------- bounds
MaxReqs == 2

Reqs == 1..MaxReqs

\* ------------------------------------------------------------ JS values
Undefined == "<undefined>"
Null == "<null>"

\* String(v) as used by the + operator on a string operand
ToStr(v) == IF v = Undefined THEN "undefined" ELSE v

\* !v for a string-or-undefined value
Falsy(v) == v = Undefined \/ v = ""

\* ------------------------------------------------------------ CONFIG
\* process.env.RAZORPAY_KEY_SECRET: absent, present but empty, or set
SecretUnset == Undefined
SecretEmpty == ""
SecretSet == "k3y"
RAZORPAY_KEY_SECRET_values == {SecretUnset, SecretEmpty, SecretSet}

\* courses.json as loaded into allowedCourses (own keys only)
CatalogNames == {"WebDev"}
CatalogPrice(name) == 500

\* names every plain object inherits from Object.prototype
PrototypeNames == {"constructor"}

JsNum(n) == [t |-> "number", n |-> n]
JsNaN == [t |-> "NaN", n |-> 0]
JsObject == [t |-> "object", n |-> 0]
JsUndefined == [t |-> "undefined", n |-> 0]

\* allowedCourses[course]: an own key, else the prototype chain, else undefined
allowedCoursesGet(course) ==
  IF course \in CatalogNames THEN JsNum(CatalogPrice(course))
  ELSE IF course \in PrototypeNames THEN JsObject
  ELSE JsUndefined

\* !v for the result of a property read
FalsyValue(v) == v.t = "undefined" \/ v.t = "NaN" \/ (v.t = "number" /\ v.n = 0)

\* the catalog price passed on as it is
Times100_Unconverted(v) == v

\* amount * 100
Times100(v) == IF v.t = "number" THEN JsNum(v.n * 100) ELSE JsNaN

\* --------------------------------------------------- signature verifier
\* order_id + "|" + payment_id
Message(order_id, payment_id) == ToStr(order_id) \o "|" \o ToStr(payment_id)

\* crypto.createHmac('sha256', key).update(msg).digest('hex') for a string
\* key: a digest determined by key and message, distinct for distinct pairs
HmacHex(key, msg) == "hmac[" \o key \o "](" \o msg \o ")"

\* createHmac throws a TypeError when the key is undefined
HmacThrows(key) == key = Undefined

\* ------------------------------------------------------------- inputs
PaymentIds == {"pay_1", "pay_2"}
OrderIds == {"order_1", "order_2"}

\* the order each payment was made for
OrderOf(p) == IF p = "pay_1" THEN "order_1" ELSE "order_2"

\* signatures a client can claim for a pair of ids: the digest under the
\* configured key (the gateway's) and the digest under the empty key (anyone's)
ClaimedSignatures(order_id, payment_id) ==
  { HmacHex(SecretSet, Message(order_id, payment_id)),
    HmacHex(SecretEmpty, Message(order_id, payment_id)) }

\* the gateway's callback for each payment, signed with the configured key,
\* and a callback for pay_1 that anyone can make, signed with the empty key
CallbackBodies ==
  { [razorpay_payment_id |-> p, razorpay_order_id |-> OrderOf(p),
     razorpay_signature |-> HmacHex(SecretSet, Message(OrderOf(p), p))] : p \in PaymentIds }
  \cup { [razorpay_payment_id |-> "pay_1", razorpay_order_id |-> "order_1",
          razorpay_signature |-> HmacHex(SecretEmpty, Message("order_1", "pay_1"))] }

VerifyBodies ==
  { [order_id |-> "order_1", payment_id |-> "pay_1", signature |-> s] :
      s \in ClaimedSignatures("order_1", "pay_1") \cup {Undefined} }
  \cup { [order_id |-> Undefined, payment_id |-> "pay_1",
          signature |-> HmacHex(SecretSet, Message(Undefined, "pay_1"))],
         [order_id |-> "order_1", payment_id |-> Undefined,
          signature |-> HmacHex(SecretSet, Message("order_1", Undefined))] }

OrderBodies == { [course |-> c] : c \in CatalogNames \cup PrototypeNames \cup {"Nonexistent", Undefined} }

PhoneBodies == { [phone |-> ph] : ph \in {"+910000000000", Undefined} }

\* what the gateway can answer to GET /v1/payments/:id with a 2xx
GatewayStatuses == {"captured", "pending"}

\* what axios rejects with: a non-2xx answer (err.response.data is the body)
\* or a network failure (no err.response)
GatewayErrors ==
  { [response_data |-> "gateway error body", message |-> "Request failed with status code 400"],
    [response_data |-> Undefined, message |-> "Network Error"] }

\* ids the gateway assigns to the orders it creates
GatewayOrderIds == {"order_1"}

\* ------------------------------------------------------------- state
VARIABLES
  secret,     \* RAZORPAY_KEY_SECRET
  alive,      \* the node process is running
  running,    \* request whose handler turn holds the event loop, 0 if none
  nreq,       \* requests received so far
  kind,       \* kind[r]: route of request r
  pc,         \* pc[r]: position of the handler of request r
  body,       \* body[r]: req.body
  local,      \* local[s]: the handler's local variables
  reply,      \* reply[r]: what the gateway answered to the outbound call of r
  resp,       \* resp[r]: responses written to res, in order
  files,      \* files[name]: the lines appended to the audit file
  outbound,   \* outbound[r]: gateway calls issued by the handler of r, in order
  hmacCalls,  \* hmacCalls[r]: keys of the signature computations started for r
  turns       \* event-loop turns begun so far

vars == <<secret, alive, running, nreq, kind, pc, body, local, reply, resp,
          files, outbound, hmacCalls, turns>>

\* Date.now() / new Date(): wall time only moves forward; it is read here as
\* the number of event-loop turns begun so far
Now == turns

FileNames == { "order_create_request.log", "order_create_response.log",
               "order_create_error.log", "callback_request.log",
               "callback_status_error.log", "callback_complete.log" }

NoData == [id |-> Undefined, amount |-> JsUndefined, currency |-> Undefined]
NoErr == [response_data |-> Undefined, message |-> Undefined]
NoReply == [outcome |-> "none", status |-> Undefined, data |-> NoData, err |-> NoErr]

InitLocal ==
  [ generated_signature |-> Undefined, signatureMatch |-> FALSE, valid |-> FALSE,
    paymentStatus |-> Undefined, amount |-> JsUndefined, data |-> NoData,
    err |-> NoErr ]

Init ==
  /\ secret \in RAZORPAY_KEY_SECRET_values
  /\ alive = TRUE
  /\ running = 0
  /\ nreq = 0
  /\ kind = [r \in Reqs |-> "none"]
  /\ pc = [r \in Reqs |-> "none"]
  /\ body = [r \in Reqs |-> [none |-> TRUE]]
  /\ local = [r \in Reqs |-> InitLocal]
  /\ reply = [r \in Reqs |-> NoReply]
  /\ resp = [r \in Reqs |-> <<>>]
  /\ files = [f \in FileNames |-> <<>>]
  /\ outbound = [r \in Reqs |-> <<>>]
  /\ hmacCalls = [r \in Reqs |-> <<>>]
  /\ turns = 0

\* ------------------------------------------------------------ helpers
\* JSON.stringify of an object: a key whose value is undefined is left out
JSONStringify(obj, optional) ==
  [k \in (DOMAIN obj) \ {o \in optional \cap DOMAIN obj : obj[o] = Undefined} |-> obj[k]]

\* the file is written anew with the one line
logToFile_Overwrite(fs, filename, r, line) ==
  [fs EXCEPT ![filename] = << [req |-> r, line |-> line] >>]

\* fs.appendFileSync(filepath, JSON.stringify(data) + "\n"): one whole line
\* is added at the end of the file, tagged here with the request that wrote it
logToFile(fs, filename, r, line) ==
  [fs EXCEPT ![filename] = Append(@, [req |-> r, line |-> line])]

\* err.response?.data || err.message
ErrDetail(e) == IF Falsy(e.response_data) THEN e.message ELSE e.response_data

\* the variables declared once for the module instead of per invocation
Frame_Shared(r) == 1

\* each invocation of a handler has its own local variables
Frame(r) == r

SuccessUrl(order_id) ==
  "https://studentforge.com/payment/success?order=" \o ToStr(order_id) \o "&amount=PAID"
FailureUrl == "https://studentforge.com/payment/failure"

\* the decision with the signature test left out
RedirectTarget_StatusOnly(signatureMatch, paymentStatus, order_id) ==
  IF paymentStatus = "captured"
  THEN SuccessUrl(order_id)
  ELSE FailureUrl

\* the decision with the status test left out
RedirectTarget_SignatureOnly(signatureMatch, paymentStatus, order_id) ==
  IF signatureMatch
  THEN SuccessUrl(order_id)
  ELSE FailureUrl

\* the failure target tells what the lookup returned
RedirectTarget_FailureReason(signatureMatch, paymentStatus, order_id) ==
  IF signatureMatch /\ paymentStatus = "captured"
  THEN SuccessUrl(order_id)
  ELSE FailureUrl \o "?status=" \o ToStr(paymentStatus)

\* lines 163-168
RedirectTarget(signatureMatch, paymentStatus, order_id) ==
  IF signatureMatch /\ paymentStatus = "captured"
  THEN SuccessUrl(order_id)
  ELSE FailureUrl

\* a request arrives when the event loop is free and its handler starts: the
\* next free slot is taken
Arrive(r, route, b) ==
  /\ alive /\ running = 0
  /\ nreq < MaxReqs /\ r = nreq + 1
  /\ nreq' = r
  /\ kind' = [kind EXCEPT ![r] = route]
  /\ body' = [body EXCEPT ![r] = b]
  /\ turns' = turns + 1

\* the handler of r is at position at and holds the event loop
At(r, at) == alive /\ running = r /\ pc[r] = at

\* ----------------------------------------------- POST /payment_callback
\* The handler is an async function with no try around lines 124-137 and no
\* catch on the promise it returns.  A throw there rejects that promise:
\* the request is left unanswered, or the framework's default error handler
\* answers 500, or the runtime ends the process on the unhandled rejection,
\* depending on the express and node versions installed.
UnhandledOutcomes == {"unanswered", "error_handler", "exit"}

Unhandled(r, outcome) ==
  /\ pc' = [pc EXCEPT ![r] = "unhandled"]
  /\ running' = 0
  /\ alive' = (outcome # "exit")
  /\ resp' = IF outcome = "error_handler"
             THEN [resp EXCEPT ![r] = Append(@, [status |-> 500, html |-> "Internal Server Error"])]
             ELSE resp

\* the payload is not logged
CB_LogRequest_Skipped(r, b) == files

\* line 124
CB_LogRequest(r, b) ==
  logToFile(files, "callback_request.log", r,
            JSONStringify(b, {"razorpay_payment_id", "razorpay_order_id", "razorpay_signature"}))

\* the callback arrives and the handler runs its first statement, line 124
ArriveCallback(r) ==
  \E b \in CallbackBodies :
    /\ Arrive(r, "payment_callback", b)
    /\ files' = CB_LogRequest(r, b)
    /\ pc' = [pc EXCEPT ![r] = "cb_audited"]
    /\ running' = r
    /\ UNCHANGED <<secret, alive, local, reply, resp, outbound, hmacCalls>>

\* lines 126-137
CB_Signature(r) ==
  /\ At(r, "cb_audited")
  /\ hmacCalls' = [hmacCalls EXCEPT ![r] = Append(@, secret)]
  /\ IF HmacThrows(secret)
     THEN /\ \E outcome \in UnhandledOutcomes : Unhandled(r, outcome)
          /\ UNCHANGED local
     ELSE /\ LET generated_signature ==
                   HmacHex(secret, Message(body[r].razorpay_order_id, body[r].razorpay_payment_id))
             IN local' = [local EXCEPT
                            ![Frame(r)].generated_signature = generated_signature,
                            ![Frame(r)].signatureMatch =
                               (generated_signature = body[r].razorpay_signature)]
          /\ pc' = [pc EXCEPT ![r] = "cb_signature_checked"]
          /\ UNCHANGED <<alive, running, resp>>
  /\ UNCHANGED <<secret, nreq, kind, body, reply, files, outbound, turns>>

\* lines 140-145: paymentStatus = null, the GET is sent and the handler awaits
CB_StatusRequest(r) ==
  /\ At(r, "cb_signature_checked")
  /\ local' = [local EXCEPT ![Frame(r)].paymentStatus = Null]
  /\ outbound' = [outbound EXCEPT ![r] = Append(@,
        [method |-> "GET",
         url |-> "https://api.razorpay.com/v1/payments/" \o ToStr(body[r].razorpay_payment_id)])]
  /\ pc' = [pc EXCEPT ![r] = "cb_await_status"]
  /\ running' = 0
  /\ UNCHANGED <<secret, alive, nreq, kind, body, reply, resp, files, hmacCalls, turns>>

\* the gateway answers 2xx: line 146 runs when the await resumes
GatewayStatusOk(r) ==
  /\ alive /\ running = 0 /\ pc[r] = "cb_await_status"
  /\ \E st \in GatewayStatuses :
       /\ reply' = [reply EXCEPT ![r] = [NoReply EXCEPT !.outcome = "ok", !.status = st]]
       /\ local' = [local EXCEPT ![Frame(r)].paymentStatus = st]
  /\ pc' = [pc EXCEPT ![r] = "cb_status_queried"]
  /\ running' = r
  /\ turns' = turns + 1
  /\ UNCHANGED <<secret, alive, nreq, kind, body, resp, files, outbound, hmacCalls>>

\* the call fails (non-2xx or network): the await throws into the catch
GatewayStatusError(r) ==
  /\ alive /\ running = 0 /\ pc[r] = "cb_await_status"
  /\ \E e \in GatewayErrors :
       /\ reply' = [reply EXCEPT ![r] = [NoReply EXCEPT !.outcome = "error", !.err = e]]
       /\ local' = [local EXCEPT ![Frame(r)].err = e]
  /\ pc' = [pc EXCEPT ![r] = "cb_status_failed"]
  /\ running' = r
  /\ turns' = turns + 1
  /\ UNCHANGED <<secret, alive, nreq, kind, body, resp, files, outbound, hmacCalls>>

\* lines 147-149
CB_StatusCatch(r) ==
  /\ At(r, "cb_status_failed")
  /\ files' = logToFile(files, "callback_status_error.log", r, ErrDetail(local[Frame(r)].err))
  /\ pc' = [pc EXCEPT ![r] = "cb_status_queried"]
  /\ UNCHANGED <<secret, alive, running, nreq, kind, body, local, reply, resp, outbound, hmacCalls, turns>>

\* the record says what the signature check found, whatever the lookup said
CallbackEvent_StatusFromSignature(r, now) ==
  [ payment_id |-> body[r].razorpay_payment_id,
    order_id |-> body[r].razorpay_order_id,
    signature_received |-> body[r].razorpay_signature,
    signature_generated |-> local[Frame(r)].generated_signature,
    signature_match |-> local[Frame(r)].signatureMatch,
    status_api |-> IF local[Frame(r)].signatureMatch THEN "captured" ELSE Null,
    timestamp |-> now ]

\* lines 152-160: the object passed to logToFile
CallbackEvent(r, now) ==
  [ payment_id |-> body[r].razorpay_payment_id,
    order_id |-> body[r].razorpay_order_id,
    signature_received |-> body[r].razorpay_signature,
    signature_generated |-> local[Frame(r)].generated_signature,
    signature_match |-> local[Frame(r)].signatureMatch,
    status_api |-> local[Frame(r)].paymentStatus,
    timestamp |-> now ]

CallbackEventLine(r, now) ==
  JSONStringify(CallbackEvent(r, now),
                {"payment_id", "order_id", "signature_received", "signature_generated", "status_api"})

CB_LogComplete(r) ==
  /\ At(r, "cb_status_queried")
  /\ files' = logToFile(files, "callback_complete.log", r, CallbackEventLine(r, Now))
  /\ pc' = [pc EXCEPT ![r] = "cb_logged"]
  /\ UNCHANGED <<secret, alive, running, nreq, kind, body, local, reply, resp, outbound, hmacCalls, turns>>

\* lines 163-168
CB_Redirect(r) ==
  /\ At(r, "cb_logged")
  /\ resp' = [resp EXCEPT ![r] = Append(@,
        [status |-> 302,
         location |-> RedirectTarget(local[Frame(r)].signatureMatch,
                                     local[Frame(r)].paymentStatus,
                                     body[r].razorpay_order_id)])]
  /\ pc' = [pc EXCEPT ![r] = "responded"]
  /\ running' = 0
  /\ UNCHANGED <<secret, alive, nreq, kind, body, local, reply, files, outbound, hmacCalls, turns>>

\* --------------------------------------------------- POST /create_order
\* the request leaves no record
CO_LogRequest_Skipped(r, b) == files

\* lines 44-45
CO_LogRequest(r, b) ==
  logToFile(files, "order_create_request.log", r, JSONStringify(b, {"course"}))

\* the request arrives and the handler runs its first statements, lines 44-45
ArriveCreateOrder(r) ==
  \E b \in OrderBodies :
    /\ Arrive(r, "create_order", b)
    /\ files' = CO_LogRequest(r, b)
    /\ pc' = [pc EXCEPT ![r] = "co_audited"]
    /\ running' = r
    /\ UNCHANGED <<secret, alive, local, reply, resp, outbound, hmacCalls>>

\* line 50: !course || !allowedCourses[course]
InvalidCourse(course) == Falsy(course) \/ FalsyValue(allowedCoursesGet(course))

\* lines 47-54
CO_Validate(r) ==
  /\ At(r, "co_audited")
  /\ IF InvalidCourse(body[r].course)
     THEN /\ resp' = [resp EXCEPT ![r] = Append(@,
                 [status |-> 400, json |-> [error |-> "Invalid course selected"]])]
          /\ pc' = [pc EXCEPT ![r] = "responded"]
          /\ running' = 0
          /\ UNCHANGED local
     ELSE /\ local' = [local EXCEPT ![Frame(r)].amount = allowedCoursesGet(body[r].course)]
          /\ pc' = [pc EXCEPT ![r] = "co_validated"]
          /\ UNCHANGED <<running, resp>>
  /\ UNCHANGED <<secret, alive, nreq, kind, body, reply, files, outbound, hmacCalls, turns>>

\* lines 59-73: the POST is sent and the handler awaits
CO_Post(r) ==
  /\ At(r, "co_validated")
  /\ outbound' = [outbound EXCEPT ![r] = Append(@,
        [method |-> "POST", url |-> "https://api.razorpay.com/v1/orders",
         amount |-> Times100(local[Frame(r)].amount), currency |-> "INR",
         receipt |-> <<"receipt_", Now>>, payment_capture |-> 1])]
  /\ pc' = [pc EXCEPT ![r] = "co_await_order"]
  /\ running' = 0
  /\ UNCHANGED <<secret, alive, nreq, kind, body, local, reply, resp, files, hmacCalls, turns>>

\* the POST that request r is waiting for
OrderCallOf(r) == outbound[r][Len(outbound[r])]

\* the gateway creates the order and answers 2xx with it; it does so only
\* for an amount that is a number
GatewayOrderOk(r) ==
  /\ alive /\ running = 0 /\ pc[r] = "co_await_order"
  /\ OrderCallOf(r).amount.t = "number"
  /\ \E id \in GatewayOrderIds :
       LET data == [id |-> id, amount |-> OrderCallOf(r).amount, currency |-> OrderCallOf(r).currency]
       IN /\ reply' = [reply EXCEPT ![r] = [NoReply EXCEPT !.outcome = "ok", !.data = data]]
          /\ local' = [local EXCEPT ![Frame(r)].data = data]
  /\ pc' = [pc EXCEPT ![r] = "co_order_received"]
  /\ running' = r
  /\ turns' = turns + 1
  /\ UNCHANGED <<secret, alive, nreq, kind, body, resp, files, outbound, hmacCalls>>

\* the call fails (non-2xx or network): the await throws into the catch
GatewayOrderError(r) ==
  /\ alive /\ running = 0 /\ pc[r] = "co_await_order"
  /\ \E e \in GatewayErrors :
       /\ reply' = [reply EXCEPT ![r] = [NoReply EXCEPT !.outcome = "error", !.err = e]]
       /\ local' = [local EXCEPT ![Frame(r)].err = e]
  /\ pc' = [pc EXCEPT ![r] = "co_failed"]
  /\ running' = r
  /\ turns' = turns + 1
  /\ UNCHANGED <<secret, alive, nreq, kind, body, resp, files, outbound, hmacCalls>>

\* line 76
CO_LogResponse(r) ==
  /\ At(r, "co_order_received")
  /\ files' = logToFile(files, "order_create_response.log", r, local[Frame(r)].data)
  /\ pc' = [pc EXCEPT ![r] = "co_response_logged"]
  /\ UNCHANGED <<secret, alive, running, nreq, kind, body, local, reply, resp, outbound, hmacCalls, turns>>

\* lines 78-83
CO_Respond(r) ==
  /\ At(r, "co_response_logged")
  /\ resp' = [resp EXCEPT ![r] = Append(@,
        [status |-> 200,
         json |-> [order_id |-> local[Frame(r)].data.id, amount |-> local[Frame(r)].data.amount,
                   currency |-> local[Frame(r)].data.currency, course |-> body[r].course]])]
  /\ pc' = [pc EXCEPT ![r] = "responded"]
  /\ running' = 0
  /\ UNCHANGED <<secret, alive, nreq, kind, body, local, reply, files, outbound, hmacCalls, turns>>

\* lines 85-87
CO_Catch(r) ==
  /\ At(r, "co_failed")
  /\ files' = logToFile(files, "order_create_error.log", r, ErrDetail(local[Frame(r)].err))
  /\ pc' = [pc EXCEPT ![r] = "co_error_logged"]
  /\ UNCHANGED <<secret, alive, running, nreq, kind, body, local, reply, resp, outbound, hmacCalls, turns>>

\* the answer carries what the gateway said
OrderFailureBody_Upstream(e) == [error |-> ErrDetail(e)]

\* line 88: the body of the 500 answer, the same for every error e
OrderFailureBody(e) == [error |-> "Failed to create Razorpay order"]

\* line 88
CO_Respond500(r) ==
  /\ At(r, "co_error_logged")
  /\ resp' = [resp EXCEPT ![r] = Append(@,
        [status |-> 500, json |-> OrderFailureBody(local[Frame(r)].err)])]
  /\ pc' = [pc EXCEPT ![r] = "responded"]
  /\ running' = 0
  /\ UNCHANGED <<secret, alive, nreq, kind, body, local, reply, files, outbound, hmacCalls, turns>>

\* ------------------------------------------------- POST /verify_payment
\* the test without the signature
MissingFields_IdsOnly(b) == Falsy(b.order_id) \/ Falsy(b.payment_id)

\* line 100
MissingFields(b) == Falsy(b.order_id) \/ Falsy(b.payment_id) \/ Falsy(b.signature)

\* any signature that is present is accepted
Valid_AnySignature(generated_signature, signature) == ~Falsy(signature)

\* line 109: generated_signature === signature
Valid(generated_signature, signature) == generated_signature = signature

\* the request arrives and the handler runs lines 96-102
ArriveVerifyPayment(r) ==
  \E b \in VerifyBodies :
    /\ Arrive(r, "verify_payment", b)
    /\ IF MissingFields(b)
       THEN /\ resp' = [resp EXCEPT ![r] = Append(@,
                   [status |-> 400, json |-> [error |-> "Missing required fields"]])]
            /\ pc' = [pc EXCEPT ![r] = "responded"]
            /\ running' = 0
       ELSE /\ pc' = [pc EXCEPT ![r] = "vp_checked"]
            /\ running' = r
            /\ UNCHANGED resp
    /\ UNCHANGED <<secret, alive, local, reply, files, outbound, hmacCalls>>

\* no try: the throw leaves the handler
VerifyOnThrow_Uncaught == "unhandled"

\* where a throw inside the try of lines 97-112 continues: the catch of line 113
VerifyOnThrow == "vp_catch"

\* lines 105-109
VP_Signature(r) ==
  /\ At(r, "vp_checked")
  /\ hmacCalls' = [hmacCalls EXCEPT ![r] = Append(@, secret)]
  /\ IF HmacThrows(secret)
     THEN /\ pc' = [pc EXCEPT ![r] = VerifyOnThrow]
          /\ running' = IF VerifyOnThrow = "vp_catch" THEN r ELSE 0
          /\ UNCHANGED local
     ELSE /\ LET generated_signature ==
                   HmacHex(secret, Message(body[r].order_id, body[r].payment_id))
             IN local' = [local EXCEPT
                            ![Frame(r)].generated_signature = generated_signature,
                            ![Frame(r)].valid = Valid(generated_signature, body[r].signature)]
          /\ pc' = [pc EXCEPT ![r] = "vp_verified"]
          /\ UNCHANGED running
  /\ UNCHANGED <<secret, alive, nreq, kind, body, reply, resp, files, outbound, turns>>

\* line 111
VP_Respond(r) ==
  /\ At(r, "vp_verified")
  /\ resp' = [resp EXCEPT ![r] = Append(@,
        [status |-> 200, json |-> [valid |-> local[Frame(r)].valid]])]
  /\ pc' = [pc EXCEPT ![r] = "responded"]
  /\ running' = 0
  /\ UNCHANGED <<secret, alive, nreq, kind, body, local, reply, files, outbound, hmacCalls, turns>>

\* lines 113-116
VP_Catch(r) ==
  /\ At(r, "vp_catch")
  /\ resp' = [resp EXCEPT ![r] = Append(@,
        [status |-> 500, json |-> [error |-> "Internal Server Error"]])]
  /\ pc' = [pc EXCEPT ![r] = "responded"]
  /\ running' = 0
  /\ UNCHANGED <<secret, alive, nreq, kind, body, local, reply, files, outbound, hmacCalls, turns>>

\* --------------------------------------------------- POST /verify_phone
\* lines 189-207: the request arrives and the handler runs to its end
VerifyPhone(r) ==
  \E b \in PhoneBodies :
    /\ Arrive(r, "verify_phone", b)
    /\ resp' = [resp EXCEPT ![r] = Append(@,
          IF Falsy(b.phone)
          THEN [status |-> 400, json |-> [error |-> "Phone missing"]]
          ELSE [status |-> 200, json |-> [success |-> TRUE, phone |-> b.phone]])]
    /\ pc' = [pc EXCEPT ![r] = "responded"]
    /\ running' = 0
    /\ UNCHANGED <<secret, alive, local, reply, files, outbound, hmacCalls>>

\* ------------------------------------------------------ specification
\* the steps of the handlers: the server takes them whenever they are enabled
Step(r) ==
  \/ CB_Signature(r) \/ CB_StatusRequest(r)
  \/ CB_StatusCatch(r) \/ CB_LogComplete(r) \/ CB_Redirect(r)
  \/ CO_Validate(r) \/ CO_Post(r) \/ CO_LogResponse(r)
  \/ CO_Respond(r) \/ CO_Catch(r) \/ CO_Respond500(r)
  \/ VP_Signature(r) \/ VP_Respond(r) \/ VP_Catch(r)

\* the clients and the gateway: nothing obliges them to act
Environment(r) ==
  \/ ArriveCallback(r) \/ ArriveCreateOrder(r) \/ ArriveVerifyPayment(r)
  \/ VerifyPhone(r)
  \/ GatewayStatusOk(r) \/ GatewayStatusError(r)
  \/ GatewayOrderOk(r) \/ GatewayOrderError(r)

Next == \E r \in Reqs : Step(r) \/ Environment(r)

Spec == Init /\ [][Next]_vars

\* the server's own steps are taken when enabled; the gateway may stay silent
FairSpec == Spec /\ \A r \in Reqs : WF_vars(Step(r))

\* ------------------------------------------------- terms of the claims
IsCallback(r) == kind[r] = "payment_callback"
IsCreateOrder(r) == kind[r] = "create_order"
IsVerifyPayment(r) == kind[r] = "verify_payment"

\* the handler of r has ended: it answered, or an exception left it
Ended(r) == pc[r] \in {"responded", "unhandled"}

\* the lines request r appended to a file
LinesOf(filename, r) ==
  LET f == files[filename]
  IN [i \in {j \in 1..Len(f) : f[j].req = r} |-> f[i].line]

NumLines(filename, r) == Cardinality(DOMAIN LinesOf(filename, r))

TheLine(filename, r) ==
  LET f == files[filename]
  IN f[CHOOSE i \in 1..Len(f) : f[i].req = r].line

\* the value a line holds under a key: undefined when the key is absent
Field(line, k) == IF k \in DOMAIN line THEN line[k] ELSE Undefined

\* the two signals of a callback, taken from its payload, the configured
\* secret and the gateway's answer, not from the handler's variables
ExpectedSignature(r) ==
  HmacHex(secret, Message(body[r].razorpay_order_id, body[r].razorpay_payment_id))
SignatureMatches(r) == ExpectedSignature(r) = body[r].razorpay_signature
LookupStatus(r) == IF reply[r].outcome = "ok" THEN reply[r].status ELSE Null

Redirected(r) == Len(resp[r]) >= 1 /\ resp[r][1].status = 302
RedirectedTo(r, url) == Redirected(r) /\ resp[r][1].location = url
SuccessRedirect(r) == RedirectedTo(r, SuccessUrl(body[r].razorpay_order_id))
FailureRedirect(r) == RedirectedTo(r, FailureUrl)

\* C1: a callback that issued a redirect got the success redirect if and
\* only if its signature matches and its status lookup returned "captured";
\* in every other combination it got the failure redirect.
C1_DecisionRule ==
  \A r \in Reqs :
    (IsCallback(r) /\ Redirected(r)) =>
      /\ SuccessRedirect(r) <=> (SignatureMatches(r) /\ LookupStatus(r) = "captured")
      /\ FailureRedirect(r) <=> ~(SignatureMatches(r) /\ LookupStatus(r) = "captured")

\* both outcomes in one run: one callback accepted, another with a matching
\* signature refused because its status is "pending"
C1_Witness ==
  \E r1, r2 \in Reqs :
    /\ IsCallback(r1) /\ SuccessRedirect(r1)
    /\ IsCallback(r2) /\ FailureRedirect(r2)
    /\ SignatureMatches(r2) /\ LookupStatus(r2) = "pending"

\* the consolidated records of a callback
NumComplete(r) == NumLines("callback_complete.log", r)
CompleteLine(r) == TheLine("callback_complete.log", r)

\* C2: a callback handler that has ended, by its last statement or by an
\* exception in the signature computation, the lookup or the decision, has
\* appended its consolidated record and answered with a redirect.
C2_ExceptionStillLogsAndRedirects ==
  \A r \in Reqs :
    (IsCallback(r) /\ Ended(r)) => (NumComplete(r) >= 1 /\ Redirected(r))

\* C3: with the gateway secret unset or empty no /verify_payment request is
\* answered valid = true and no callback is answered with the success
\* redirect, whatever signature is claimed.
C3_FailsClosedWithoutSecret ==
  (secret \in {SecretUnset, SecretEmpty}) =>
    \A r \in Reqs :
      /\ IsVerifyPayment(r) =>
           ~(Len(resp[r]) >= 1 /\ resp[r][1].status = 200 /\ resp[r][1].json.valid)
      /\ IsCallback(r) => ~SuccessRedirect(r)

\* the keys of a consolidated callback record
CallbackEventKeys ==
  { "payment_id", "order_id", "signature_received", "signature_generated",
    "signature_match", "status_api", "timestamp" }

\* C4: every callback invocation appends exactly one consolidated record,
\* never two while it runs and never zero once it has ended, and the record
\* carries the seven fields of a callback event.
C4_ExactlyOneConsolidatedRecord ==
  \A r \in Reqs :
    IsCallback(r) =>
      /\ NumComplete(r) <= 1
      /\ Ended(r) => NumComplete(r) = 1
      /\ NumComplete(r) = 1 => DOMAIN CompleteLine(r) = CallbackEventKeys

\* the status-error lines of a callback
NumStatusErrors(r) == NumLines("callback_status_error.log", r)

\* the lookup of r failed and the catch block has run
LookupFailed(r) == IsCallback(r) /\ reply[r].outcome = "error"
PastCatch(r) == pc[r] \in {"cb_status_queried", "cb_logged", "responded"}

\* C5: when the status lookup of a callback fails, the failure is appended
\* to the status-error stream, the handler goes on (it is never left by the
\* exception), status_api is recorded as null and the answer is the failure
\* redirect, also when the signature matches.
C5_LookupFailureIsUnknownStatus ==
  \A r \in Reqs :
    LookupFailed(r) =>
      /\ pc[r] \in {"cb_status_failed"} \cup {"cb_status_queried", "cb_logged", "responded"}
      /\ pc[r] # "responded" => running = r
      /\ PastCatch(r) =>
           /\ NumStatusErrors(r) = 1
           /\ TheLine("callback_status_error.log", r) = ErrDetail(reply[r].err)
      /\ pc[r] \in {"cb_logged", "responded"} =>
           /\ NumComplete(r) = 1
           /\ Field(CompleteLine(r), "status_api") = Null
      /\ pc[r] = "responded" => FailureRedirect(r)
      /\ ~SuccessRedirect(r)

\* a lookup failed for a callback whose signature matches, and the callback
\* was answered
C5_Witness ==
  \E r \in Reqs :
    /\ LookupFailed(r) /\ SignatureMatches(r)
    /\ reply[r].err.response_data = Undefined
    /\ pc[r] = "responded"

\* C6: a callback that waits for the answer of its status lookup is
\* eventually answered, also when the gateway never answers: the lookup is
\* cut off and the pipeline ends in Responded.
C6_SilentGatewayStillResponds ==
  \A r \in Reqs : (pc[r] = "cb_await_status") ~> (pc[r] = "responded")

\* the raw payload of callback r is in the callback request stream
RequestLogged(r) ==
  /\ NumLines("callback_request.log", r) = 1
  /\ LET line == TheLine("callback_request.log", r)
     IN /\ Field(line, "razorpay_payment_id") = body[r].razorpay_payment_id
        /\ Field(line, "razorpay_order_id") = body[r].razorpay_order_id
        /\ Field(line, "razorpay_signature") = body[r].razorpay_signature

\* C7: as soon as a callback has started a signature computation, issued its
\* status lookup, been answered or been left by an exception, its raw
\* payload is in the callback request stream, and it stays there.
C7_AuditFirst ==
  \A r \in Reqs :
    IsCallback(r) =>
      /\ ( \/ hmacCalls[r] # <<>> \/ outbound[r] # <<>> \/ resp[r] # <<>>
           \/ NumComplete(r) >= 1 \/ NumStatusErrors(r) >= 1 ) => RequestLogged(r)

\* the signature computation threw and ended the process: the payload of
\* the callback is in the stream all the same
C7_Witness ==
  \E r \in Reqs :
    /\ IsCallback(r) /\ pc[r] = "unhandled" /\ ~alive
    /\ hmacCalls[r] # <<>> /\ RequestLogged(r)

\* C8: a /create_order request whose course is no key of the catalog makes
\* no outbound call and, once answered, was answered 400 "invalid course".
C8_UnknownCourseRejected ==
  \A r \in Reqs :
    (IsCreateOrder(r) /\ body[r].course \notin CatalogNames) =>
      /\ outbound[r] = <<>>
      /\ Len(resp[r]) >= 1 =>
           /\ resp[r][1].status = 400
           /\ resp[r][1].json.error = "Invalid course selected"

\* the consolidated record of callback r holds the values of r alone
OwnRecord(r) ==
  LET line == CompleteLine(r)
  IN /\ DOMAIN line = CallbackEventKeys
     /\ line.payment_id = body[r].razorpay_payment_id
     /\ line.order_id = body[r].razorpay_order_id
     /\ line.signature_received = body[r].razorpay_signature
     /\ line.signature_generated = ExpectedSignature(r)
     /\ line.signature_match = SignatureMatches(r)
     /\ line.status_api = LookupStatus(r)

\* C9: however callbacks interleave at the status lookup, each one that got
\* past its lookup appends one whole consolidated record made of its own
\* payload, signatures and lookup result, and its redirect is decided by its
\* own two signals.
C9_CallbacksIndependent ==
  \A r \in Reqs :
    IsCallback(r) =>
      /\ NumComplete(r) <= 1
      /\ pc[r] \in {"cb_logged", "responded"} => (NumComplete(r) = 1 /\ OwnRecord(r))
      /\ pc[r] = "responded" =>
           resp[r] = << [status |-> 302,
                         location |-> IF SignatureMatches(r) /\ LookupStatus(r) = "captured"
                                      THEN SuccessUrl(body[r].razorpay_order_id)
                                      ELSE FailureUrl] >>

\* two callbacks for different payments waited for their lookups at the same
\* time (the one that arrived second logged first), with different
\* signature results and different statuses, and both were answered
C9_Witness ==
  \E r1, r2 \in Reqs :
    /\ r1 < r2 /\ IsCallback(r1) /\ IsCallback(r2)
    /\ body[r1].razorpay_payment_id # body[r2].razorpay_payment_id
    /\ pc[r1] = "responded" /\ pc[r2] = "responded"
    /\ files["callback_complete.log"][1].req = r2
    /\ files["callback_complete.log"][2].req = r1
    /\ SignatureMatches(r1) # SignatureMatches(r2)
    /\ LookupStatus(r1) = "captured" /\ LookupStatus(r2) = "pending"

\* the answers of /create_order and of /verify_payment
CreateOrderAnswers(r) ==
  { a \in {resp[r][1]} :
      \/ a.status = 200 /\ DOMAIN a.json = {"order_id", "amount", "currency", "course"}
      \/ a.status = 400 /\ a.json = [error |-> "Invalid course selected"]
      \/ a.status = 500 /\ a.json = [error |-> "Failed to create Razorpay order"] }
VerifyPaymentAnswers(r) ==
  { a \in {resp[r][1]} :
      \/ a.status = 200 /\ DOMAIN a.json = {"valid"}
      \/ a.status = 400 /\ a.json = [error |-> "Missing required fields"]
      \/ a.status = 500 /\ a.json = [error |-> "Internal Server Error"] }

OrderCallFailed(r) == IsCreateOrder(r) /\ reply[r].outcome = "error"

\* C11: a /create_order request issues at most one outbound order-creation
\* call; when that call fails (non-2xx or network failure) the request
\* appends one record to the order error stream and none to the order
\* response stream, and is answered 500 with the fixed generic message.
C11_OrderFailureIs500NoRetry ==
  \A r \in Reqs :
    IsCreateOrder(r) =>
      /\ Len(outbound[r]) <= 1
      /\ OrderCallFailed(r) =>
           /\ Len(outbound[r]) = 1
           /\ NumLines("order_create_response.log", r) = 0
           /\ NumLines("order_create_error.log", r) <= 1
           /\ pc[r] \in {"co_failed", "co_error_logged", "responded"}
           /\ pc[r] \in {"co_error_logged", "responded"} =>
                /\ NumLines("order_create_error.log", r) = 1
                /\ TheLine("order_create_error.log", r) = ErrDetail(reply[r].err)
           /\ pc[r] = "responded" =>
                resp[r] = << [status |-> 500,
                              json |-> [error |-> "Failed to create Razorpay order"]] >>

\* both kinds of failure were answered: a non-2xx answer with a body and a
\* network failure
C11_Witness ==
  \E r1, r2 \in Reqs :
    /\ OrderCallFailed(r1) /\ pc[r1] = "responded"
    /\ reply[r1].err.response_data = "gateway error body"
    /\ OrderCallFailed(r2) /\ pc[r2] = "responded"
    /\ reply[r2].err.response_data = Undefined

\* /verify_payment answered r with 200 {valid}
VerifyAnswered(r) ==
  IsVerifyPayment(r) /\ Len(resp[r]) >= 1 /\ resp[r][1].status = 200

\* compute_signature(order_id, payment_id) under the configured secret
ComputeSignature(order_id, payment_id) == HmacHex(secret, Message(order_id, payment_id))

\* C12: /verify_payment answers valid = true if and only if the claimed
\* signature equals the digest of order_id + "|" + payment_id under the
\* configured secret, valid = false for any other claimed signature, and
\* the same answer for the same (order_id, payment_id, signature).
C12_ValidIffSignatureEqual ==
  /\ \A r \in Reqs :
       VerifyAnswered(r) =>
         (resp[r][1].json.valid <=>
            (body[r].signature = ComputeSignature(body[r].order_id, body[r].payment_id)))
  /\ \A r1, r2 \in Reqs :
       (VerifyAnswered(r1) /\ VerifyAnswered(r2) /\ body[r1] = body[r2]) =>
         resp[r1][1].json.valid = resp[r2][1].json.valid

\* one request was answered valid = true and one, with another signature for
\* the same ids, valid = false
C12_Witness ==
  \E r1, r2 \in Reqs :
    /\ VerifyAnswered(r1) /\ resp[r1][1].json.valid
    /\ VerifyAnswered(r2) /\ ~resp[r2][1].json.valid
    /\ body[r1].order_id = body[r2].order_id /\ body[r1].payment_id = body[r2].payment_id

\* a field of the /verify_payment request is missing
FieldMissing(r) ==
  \/ body[r].order_id = Undefined \/ body[r].payment_id = Undefined
  \/ body[r].signature = Undefined

\* C13: a /verify_payment request that lacks order_id, payment_id or
\* signature is answered 400 and no signature is computed for it.
C13_MissingFieldIs400 ==
  \A r \in Reqs :
    (IsVerifyPayment(r) /\ FieldMissing(r)) =>
      /\ hmacCalls[r] = <<>>
      /\ local[r].generated_signature = Undefined
      /\ resp[r] = << [status |-> 400, json |-> [error |-> "Missing required fields"]] >>

\* a request without signature and a request without order_id were answered
C13_Witness ==
  \E r1, r2 \in Reqs :
    /\ IsVerifyPayment(r1) /\ body[r1].signature = Undefined /\ pc[r1] = "responded"
    /\ IsVerifyPayment(r2) /\ body[r2].order_id = Undefined /\ pc[r2] = "responded"

\* the course of /create_order request r is a key of the catalog
CatalogCourse(r) == IsCreateOrder(r) /\ body[r].course \in CatalogNames

\* C14: for a catalog course of price p, /create_order issues one outbound
\* order-creation request with amount exactly 100 * p and currency "INR"
\* (500 gives 50000), and the amount in the 200 answer is the amount of the
\* order in the gateway's response.
C14_AmountInMinorUnits ==
  \A r \in Reqs :
    CatalogCourse(r) =>
      /\ Len(outbound[r]) <= 1
      /\ Ended(r) => Len(outbound[r]) = 1
      /\ \A i \in 1..Len(outbound[r]) :
           /\ outbound[r][i].method = "POST"
           /\ outbound[r][i].amount = JsNum(100 * CatalogPrice(body[r].course))
           /\ outbound[r][i].currency = "INR"
      /\ (Len(resp[r]) >= 1 /\ resp[r][1].status = 200) =>
           /\ reply[r].outcome = "ok"
           /\ resp[r][1].json.amount = reply[r].data.amount
           /\ resp[r][1].json.currency = reply[r].data.currency

\* a course of price 500 was ordered with amount 50000 and the client was
\* answered with the gateway's amount
C14_Witness ==
  \E r \in Reqs :
    /\ CatalogCourse(r) /\ CatalogPrice(body[r].course) = 500
    /\ Len(outbound[r]) = 1 /\ outbound[r][1].amount = JsNum(50000)
    /\ Len(resp[r]) = 1 /\ resp[r][1].status = 200
    /\ resp[r][1].json.amount = JsNum(50000)

\* a callback that was redirected, not to the success page of its order
FailingCallback(r) == IsCallback(r) /\ Redirected(r) /\ ~SuccessRedirect(r)

\* C15: the success redirect carries the order id received in the callback
\* as the query parameter "order", and the failure redirect is one fixed
\* URL: any two failing callbacks, whatever their payloads, signatures and
\* lookup results, are redirected to the same target.
C15_FailureRedirectIsFixed ==
  /\ \A r \in Reqs :
       (IsCallback(r) /\ Redirected(r)) =>
         \/ resp[r][1].location =
              "https://studentforge.com/payment/success?order="
                 \o body[r].razorpay_order_id \o "&amount=PAID"
         \/ resp[r][1].location = "https://studentforge.com/payment/failure"
  /\ \A r1, r2 \in Reqs :
       (FailingCallback(r1) /\ FailingCallback(r2)) =>
         resp[r1][1].location = resp[r2][1].location

\* two failing callbacks with different payloads, one with a matching
\* signature and one without, and different lookup results were redirected
C15_Witness ==
  \E r1, r2 \in Reqs :
    /\ FailingCallback(r1) /\ FailingCallback(r2)
    /\ body[r1] # body[r2]
    /\ SignatureMatches(r1) /\ ~SignatureMatches(r2)
    /\ LookupStatus(r1) # LookupStatus(r2)

\* two callbacks for different orders were redirected to the success pages
\* of their own orders
C15_SuccessWitness ==
  \E r1, r2 \in Reqs :
    /\ SuccessRedirect(r1) /\ SuccessRedirect(r2)
    /\ body[r1].razorpay_order_id # body[r2].razorpay_order_id
    /\ resp[r1][1].location # resp[r2][1].location

\* /create_order request r was answered with this status
OrderAnswered(r, status) ==
  IsCreateOrder(r) /\ Len(resp[r]) >= 1 /\ resp[r][1].status = status

\* the body of request r is in the order request stream, once
OrderRequestLogged(r) ==
  /\ NumLines("order_create_request.log", r) = 1
  /\ TheLine("order_create_request.log", r) = JSONStringify(body[r], {"course"})

\* C16: a /create_order request has its request record in the order request
\* stream from its first step on, so before its course is validated and
\* before any outbound call, and also when it is rejected; its record in the
\* order response stream is the gateway's response, appended only after that
\* response was received and before the 200 answer; a request rejected with
\* 400 has no record in the order error stream or the order response stream.
C16_OrderAuditOrdering ==
  \A r \in Reqs :
    IsCreateOrder(r) =>
      /\ OrderRequestLogged(r)
      /\ NumLines("order_create_response.log", r) <= 1
      /\ NumLines("order_create_response.log", r) = 1 =>
           /\ reply[r].outcome = "ok"
           /\ TheLine("order_create_response.log", r) = reply[r].data
      /\ reply[r].outcome # "ok" => NumLines("order_create_response.log", r) = 0
      /\ OrderAnswered(r, 200) => NumLines("order_create_response.log", r) = 1
      /\ OrderAnswered(r, 400) =>
           /\ NumLines("order_create_error.log", r) = 0
           /\ NumLines("order_create_response.log", r) = 0
           /\ outbound[r] = <<>>

\* one request was rejected with 400 and left its request record; another
\* was answered 200 after the gateway's response was recorded
C16_Witness ==
  \E r1, r2 \in Reqs :
    /\ OrderAnswered(r1, 400) /\ OrderRequestLogged(r1)
    /\ OrderAnswered(r2, 200) /\ OrderRequestLogged(r2)
    /\ NumLines("order_create_response.log", r2) = 1

\* the status lookups callback r has issued
NumLookups(r) == Len(outbound[r])

\* the lookup of callback r has completed, with a status or with a failure
LookupCompleted(r) == reply[r].outcome \in {"ok", "error"}

\* C17: a callback invocation issues exactly one status lookup, never two
\* while it runs and never zero once it has ended; the lookup is a GET for
\* the payment id of the callback, issued after the signature computation
\* whether or not the signature matches, and it has completed, with a status
\* or with a failure, when the consolidated record is appended.
C17_ExactlyOneLookup ==
  \A r \in Reqs :
    IsCallback(r) =>
      /\ NumLookups(r) <= 1
      /\ Ended(r) => NumLookups(r) = 1
      /\ \A i \in 1..NumLookups(r) :
           /\ outbound[r][i].method = "GET"
           /\ outbound[r][i].url =
                "https://api.razorpay.com/v1/payments/" \o body[r].razorpay_payment_id
      /\ NumLookups(r) >= 1 => hmacCalls[r] # <<>>
      /\ NumComplete(r) >= 1 => (NumLookups(r) = 1 /\ LookupCompleted(r))

\* with a secret that the signature computation accepts the statement of C17
\* holds
C17_HoldsWithUsableSecret == (secret # SecretUnset) => C17_ExactlyOneLookup

\* with a usable secret, a callback whose signature does not match has
\* issued its lookup and ended
C17_MismatchStillLooksUp ==
  \E r \in Reqs :
    /\ IsCallback(r) /\ secret # SecretUnset /\ ~SignatureMatches(r)
    /\ Ended(r) /\ NumLookups(r) = 1 /\ LookupCompleted(r)

IsVerifyPhone(r) == kind[r] = "verify_phone"

\* the requests that have a record in some audit stream
Writers(fs) == UNION { { fs[f][i].req : i \in 1..Len(fs[f]) } : f \in FileNames }

\* the stream after the step is the stream before it, or that with one
\* record added at its end
UnchangedOrExtended(before, after) ==
  \/ after = before
  \/ /\ Len(after) = Len(before) + 1
     /\ SubSeq(after, 1, Len(before)) = before

\* C18: every step of every handler leaves each audit stream as it was or
\* adds exactly one record at its end, so no record once appended is ever
\* changed, moved or removed; and no record in any stream was written by a
\* /verify_payment or a /verify_phone request.
C18_StreamsAppendOnly ==
  [][ /\ \A f \in FileNames : UnchangedOrExtended(files[f], files'[f])
      /\ \A r \in Writers(files') : kind'[r] \notin {"verify_payment", "verify_phone"}
    ]_vars

\* a stream holds the records of two requests, the earlier one first
C18_Witness ==
  \E f \in FileNames :
    /\ Len(files[f]) = 2
    /\ files[f][1].req # files[f][2].req
    /\ Ended(files[f][1].req) /\ Ended(files[f][2].req)

\* a /verify_payment and a /verify_phone request were answered and every
\* stream is empty
C18_VerifyWitness ==
  \E r1, r2 \in Reqs :
    /\ IsVerifyPayment(r1) /\ Ended(r1) /\ hmacCalls[r1] # <<>>
    /\ IsVerifyPhone(r2) /\ Ended(r2)
    /\ \A f \in FileNames : files[f] = <<>>

\* what the consolidated record of callback r says
RecordSaysMatch(r) == Field(CompleteLine(r), "signature_match")
RecordSaysStatus(r) == Field(CompleteLine(r), "status_api")

\* C19: the consolidated record of a callback and its redirect agree: in
\* the record signature_match is (signature_generated = signature_received)
\* and status_api is the status the lookup returned, null if it failed; a
\* redirected callback has its record already; and the redirect is the
\* success redirect exactly when the record has signature_match = true and
\* status_api = "captured", the failure redirect otherwise.
C19_RecordAndRedirectAgree ==
  \A r \in Reqs :
    IsCallback(r) =>
      /\ NumComplete(r) >= 1 =>
           /\ RecordSaysMatch(r) =
                (Field(CompleteLine(r), "signature_generated")
                   = Field(CompleteLine(r), "signature_received"))
           /\ RecordSaysStatus(r) = LookupStatus(r)
      /\ Redirected(r) =>
           /\ NumComplete(r) = 1
           /\ SuccessRedirect(r) <=> (RecordSaysMatch(r) /\ RecordSaysStatus(r) = "captured")
           /\ FailureRedirect(r) <=> ~(RecordSaysMatch(r) /\ RecordSaysStatus(r) = "captured")

\* one callback was sent to the success page after a record with
\* signature_match = true and status_api = "captured"; another, whose
\* lookup failed, was sent to the failure page after a record with
\* status_api = null
C19_Witness ==
  \E r1, r2 \in Reqs :
    /\ IsCallback(r1) /\ SuccessRedirect(r1)
    /\ RecordSaysMatch(r1) /\ RecordSaysStatus(r1) = "captured"
    /\ IsCallback(r2) /\ FailureRedirect(r2)
    /\ RecordSaysMatch(r2) /\ RecordSaysStatus(r2) = Null /\ LookupFailed(r2)

====
